---- MODULE Spec2Model ----
\* Model of the Preferences dialog controller
\* (app/src/ui/preferences/preferences.tsx): the asynchronous load on open
\* (componentWillMount), the draft change handlers, and the asynchronous save
\* (onSave), every await of which is a point where other UI events may run.
EXTENDS Integers, Sequences, FiniteSets, TLC

\* ---------------------------------------------------------------- bounds

\* number of UI events (tab clicks and changes) in one dialog session
MaxEdits == 2
\* number of times Save is pressed in one dialog session
MaxSaves == 1

\* ---------------------------------------------------------------- values

\* JavaScript null and undefined
Null == "<null>"
Undefined == "<undefined>"

\* `'text' + value`: null concatenates as the text "null"
ToStr(v) == IF v = Null THEN "null" ELSE v

\* JavaScript falsiness of a `string | null`
Falsy(v) == v = Null \/ v = ""

\* committer names the user can type / the store can hold
Names == {"", "a", "."}
\* gitAuthorNameIsValid (lib/identifier-rules): a name made only of
\* disallowed characters is invalid
gitAuthorNameIsValid(name) == name # "."
InvalidGitAuthorNameMessage == "Name is invalid"

Emails == {"", "e"}
Branches == {"", "main", "dev"}
ToolNames == {"", "t", "u"}
ToolCommands == {"", "c"}
Editors == {"vscode", "atom"}
Shells == {"bash", "zsh"}
Strategies == {"askForConfirmation", "moveToNewBranch"}
Themes == {"light", "dark"}
Tabs == {"Accounts", "Integrations", "Git", "Appearance", "Prompts", "Advanced"}
defaultUncommittedChangesStrategy == "askForConfirmation"

\* signed-in accounts, as far as the dialog reads them
DotCom == "dotcom"
Enterprise == "enterprise"
\* Account.login
login(account) == IF account = DotCom THEN "a" ELSE "b"
lookupPreferredEmail(account) == IF account = DotCom THEN "e" ELSE "f"

\* the path parseConfigLockFilePathFromError extracts from a lock error
LockPath == "/home/.gitconfig.lock"

\* how an awaited operation of save can end: success, a lock-conflict error
\* carrying a lock file path, a lock-conflict error without one, another error
Outcomes == {"ok", "lock", "lockNoPath", "error"}

VARIABLES
  config,         \* global git configuration: present key -> value
  branchStore,    \* the stored default branch (lib/helpers/default-branch)
  app,            \* app-level settings behind the dispatcher
  props,          \* IPreferencesProps
  state,          \* IPreferencesState
  loadPc,         \* componentWillMount: the await it is suspended at
  loadVars,       \* componentWillMount: its local variables
  pc,             \* onSave: the await it is suspended at, or "idle"
  shouldRefreshAuthor, \* onSave: its local variable
  calls,          \* calls the current (or last) save has issued, in order
  result,         \* how the last save ended
  open,           \* the dialog is mounted and receives UI events
  edits,          \* UI events (tab clicks and changes) so far
  saves,          \* saves started so far
  earlyInput      \* the user acts before the load on open has completed

vars == <<config, branchStore, app, props, state, loadPc, loadVars, pc,
          shouldRefreshAuthor, calls, result, open, edits, saves, earlyInput>>

\* ---------------------------------------------------------- collaborators

getGlobalConfigValue(key) == IF key \in DOMAIN config THEN config[key] ELSE Null

setGlobalConfigValue(cfg, key, value) ==
  [k \in DOMAIN cfg \cup {key} |-> IF k = key THEN value ELSE cfg[k]]

removeGlobalConfigValue(cfg, key) == [k \in DOMAIN cfg \ {key} |-> cfg[k]]

getDefaultBranch == branchStore

\* the global git configurations the dialog may be opened on: nothing set,
\* an identity, an identity with an invalid name and a merge tool, a merge
\* tool without a command, a merge tool and no identity
StoredConfig(keys, name) ==
  [k \in keys |-> CASE k = "user.name" -> name
                    [] k = "user.email" -> "e"
                    [] k = "merge.tool" -> "t"
                    [] OTHER -> "c"]

InitialConfigs ==
  { StoredConfig({}, "a"),
    StoredConfig({"user.name", "user.email"}, "a"),
    StoredConfig({"user.name", "user.email", "merge.tool", "mergetool.t.cmd"}, "."),
    StoredConfig({"user.name", "user.email", "merge.tool"}, "a"),
    StoredConfig({"merge.tool", "mergetool.t.cmd"}, "a") }

\* who is signed in, and the editor selected so far
Profiles ==
  { <<Null, Null, Null>>, <<DotCom, Enterprise, "vscode">>,
    <<Null, Enterprise, Null>> }

InitialProps ==
  { [ dotComAccount |-> pr[1],
      enterpriseAccount |-> pr[2],
      repository |-> "repo",
      optOutOfUsageTracking |-> FALSE,
      initialSelectedTab |-> Undefined,
      confirmRepositoryRemoval |-> TRUE,
      confirmDiscardChanges |-> TRUE,
      confirmForcePush |-> TRUE,
      uncommittedChangesStrategy |-> "moveToNewBranch",
      selectedExternalEditor |-> pr[3],
      selectedShell |-> "bash",
      selectedTheme |-> "light",
      repositoryIndicatorsEnabled |-> TRUE ] : pr \in Profiles }

\* ------------------------------------------------------------ constructor

ConstructorState(p) ==
  [ selectedIndex |-> IF p.initialSelectedTab = Undefined THEN "Accounts"
                      ELSE p.initialSelectedTab,
    committerName |-> "",
    committerEmail |-> "",
    mergeToolName |-> "",
    mergeToolCommand |-> "",
    defaultBranch |-> "",
    initialCommitterName |-> Null,
    initialCommitterEmail |-> Null,
    initialDefaultBranch |-> Null,
    initialMergeToolName |-> Null,
    initialMergeToolCommand |-> Null,
    initialUseCustomMergeTool |-> FALSE,
    disallowedCharactersMessage |-> Null,
    availableEditors |-> {},
    optOutOfUsageTracking |-> FALSE,
    confirmRepositoryRemoval |-> FALSE,
    confirmDiscardChanges |-> FALSE,
    confirmForcePush |-> FALSE,
    useCustomMergeTool |-> FALSE,
    uncommittedChangesStrategy |-> defaultUncommittedChangesStrategy,
    selectedExternalEditor |-> p.selectedExternalEditor,
    availableShells |-> {},
    selectedShell |-> p.selectedShell,
    existingLockFilePath |-> Undefined,
    repositoryIndicatorsEnabled |-> p.repositoryIndicatorsEnabled ]

NoLoadVars ==
  [ initialCommitterName |-> Null, initialCommitterEmail |-> Null,
    initialDefaultBranch |-> Null, initialMergeToolName |-> Null,
    initialMergeToolCommand |-> Null ]

Constructed ==
  /\ config \in InitialConfigs
  /\ branchStore = "main"
  /\ props \in InitialProps
  /\ app = [ statsOptOut |-> props.optOutOfUsageTracking,
             confirmRepoRemoval |-> props.confirmRepositoryRemoval,
             confirmForcePush |-> props.confirmForcePush,
             confirmDiscardChanges |-> props.confirmDiscardChanges,
             uncommittedChangesStrategy |-> props.uncommittedChangesStrategy,
             externalEditor |-> props.selectedExternalEditor,
             shell |-> props.selectedShell,
             selectedTheme |-> props.selectedTheme,
             repositoryIndicatorsEnabled |-> props.repositoryIndicatorsEnabled,
             accounts |-> {props.dotComAccount, props.enterpriseAccount} \ {Null},
             errors |-> 0 ]
  /\ state = ConstructorState(props)
  /\ loadPc = "user.name"
  /\ loadVars = NoLoadVars
  /\ pc = "idle"
  /\ shouldRefreshAuthor = FALSE
  /\ calls = << >>
  /\ result = "none"
  /\ open = TRUE
  /\ edits = 0
  /\ saves = 0

\* the dialog opens and the load completes before the user's first event
Init == Constructed /\ earlyInput = FALSE

\* the dialog opens and the user may act while the load is still running
InitEarly == Constructed /\ earlyInput = TRUE

\* ------------------------------------------------------ componentWillMount

\* the state componentWillMount sets when its last await has completed
LoadSetState ==
  LET initialCommitterName == loadVars.initialCommitterName
      initialCommitterEmail == loadVars.initialCommitterEmail
      initialMergeToolName == loadVars.initialMergeToolName
      initialMergeToolCommand == loadVars.initialMergeToolCommand
      account == IF props.dotComAccount # Null THEN props.dotComAccount
                 ELSE props.enterpriseAccount
      fill == (Falsy(initialCommitterName) \/ Falsy(initialCommitterEmail))
              /\ account # Null
      committerName1 == IF fill /\ Falsy(initialCommitterName)
                        THEN login(account) ELSE initialCommitterName
      committerEmail1 == IF fill /\ Falsy(initialCommitterEmail)
                         THEN lookupPreferredEmail(account)
                         ELSE initialCommitterEmail
  IN [ state EXCEPT
         !.committerName = IF Falsy(committerName1) THEN "" ELSE committerName1,
         !.committerEmail = IF Falsy(committerEmail1) THEN "" ELSE committerEmail1,
         !.mergeToolName = IF Falsy(initialMergeToolName) THEN ""
                           ELSE initialMergeToolName,
         !.mergeToolCommand = IF Falsy(initialMergeToolCommand) THEN ""
                              ELSE initialMergeToolCommand,
         !.defaultBranch = loadVars.initialDefaultBranch,
         !.initialCommitterName = initialCommitterName,
         !.initialCommitterEmail = initialCommitterEmail,
         !.initialDefaultBranch = loadVars.initialDefaultBranch,
         !.initialMergeToolName = initialMergeToolName,
         !.initialMergeToolCommand = initialMergeToolCommand,
         !.initialUseCustomMergeTool = ~Falsy(initialMergeToolName),
         !.optOutOfUsageTracking = props.optOutOfUsageTracking,
         !.confirmRepositoryRemoval = props.confirmRepositoryRemoval,
         !.confirmDiscardChanges = props.confirmDiscardChanges,
         !.confirmForcePush = props.confirmForcePush,
         !.uncommittedChangesStrategy = props.uncommittedChangesStrategy,
         !.availableShells = Shells,
         !.availableEditors = Editors,
         !.useCustomMergeTool = ~Falsy(initialMergeToolName) ]

\* one await of componentWillMount completes; the last one runs on to
\* setState, which has no effect once the component is unmounted
componentWillMount ==
  /\ loadPc # "done"
  /\ open
  /\ CASE loadPc = "user.name" ->
            /\ loadVars' = [loadVars EXCEPT !.initialCommitterName =
                                              getGlobalConfigValue("user.name")]
            /\ loadPc' = "user.email"
            /\ UNCHANGED state
       [] loadPc = "user.email" ->
            /\ loadVars' = [loadVars EXCEPT !.initialCommitterEmail =
                                              getGlobalConfigValue("user.email")]
            /\ loadPc' = "defaultBranch"
            /\ UNCHANGED state
       [] loadPc = "defaultBranch" ->
            /\ loadVars' = [loadVars EXCEPT !.initialDefaultBranch = getDefaultBranch]
            /\ loadPc' = "merge.tool"
            /\ UNCHANGED state
       [] loadPc = "merge.tool" ->
            /\ loadVars' = [loadVars EXCEPT !.initialMergeToolName =
                                              getGlobalConfigValue("merge.tool")]
            /\ loadPc' = IF Falsy(getGlobalConfigValue("merge.tool"))
                         THEN "editors" ELSE "mergetool.cmd"
            /\ UNCHANGED state
       [] loadPc = "mergetool.cmd" ->
            /\ loadVars' = [loadVars EXCEPT !.initialMergeToolCommand =
                  getGlobalConfigValue("mergetool."
                     \o ToStr(loadVars.initialMergeToolName) \o ".cmd")]
            /\ loadPc' = "editors"
            /\ UNCHANGED state
       [] loadPc = "editors" ->
            /\ state' = LoadSetState
            /\ loadPc' = "done"
            /\ UNCHANGED loadVars
  /\ UNCHANGED <<config, branchStore, app, props, pc, shouldRefreshAuthor,
                 calls, result, open, edits, saves, earlyInput>>

\* --------------------------------------------------------- change handlers

\* a UI event reaches its handler while the dialog is mounted
CanHandle ==
  /\ open
  /\ edits < MaxEdits
  /\ loadPc = "done" \/ earlyInput

\* a handler of the form rendered on a tab runs while that tab is selected
CanEdit(tab) == CanHandle /\ state.selectedIndex = tab

\* everything but the component state and the edit count
NotState == <<config, branchStore, app, props, loadPc, loadVars, pc,
              shouldRefreshAuthor, calls, result, open, saves, earlyInput>>

SetState(field, value) ==
  /\ state[field] # value
  /\ state' = [state EXCEPT ![field] = value]
  /\ edits' = edits + 1
  /\ UNCHANGED NotState

onRepositoryIndicatorsEnabledChanged(repositoryIndicatorsEnabled) ==
  /\ CanEdit("Advanced")
  /\ SetState("repositoryIndicatorsEnabled", repositoryIndicatorsEnabled)

onLockFileDeleted ==
  /\ CanEdit("Git")
  /\ state.existingLockFilePath # Undefined
  /\ SetState("existingLockFilePath", Undefined)

onLockFileDeleteError ==
  /\ CanEdit("Git")
  /\ state.existingLockFilePath # Undefined
  /\ app' = [app EXCEPT !.errors = @ + 1]
  /\ edits' = edits + 1
  /\ UNCHANGED <<config, branchStore, props, state, loadPc, loadVars, pc,
                 shouldRefreshAuthor, calls, result, open, saves, earlyInput>>

onOptOutofReportingChanged(value) ==
  /\ CanEdit("Advanced")
  /\ SetState("optOutOfUsageTracking", value)

onConfirmRepositoryRemovalChanged(value) ==
  /\ CanEdit("Prompts")
  /\ SetState("confirmRepositoryRemoval", value)

onConfirmDiscardChangesChanged(value) ==
  /\ CanEdit("Prompts")
  /\ SetState("confirmDiscardChanges", value)

onConfirmForcePushChanged(value) ==
  /\ CanEdit("Prompts")
  /\ SetState("confirmForcePush", value)

onUncommittedChangesStrategyChanged(uncommittedChangesStrategy) ==
  /\ CanEdit("Advanced")
  /\ SetState("uncommittedChangesStrategy", uncommittedChangesStrategy)

DisallowedCharactersMessageFor(committerName) ==
  IF gitAuthorNameIsValid(committerName) THEN Null ELSE InvalidGitAuthorNameMessage

onCommitterNameChanged(committerName) ==
  /\ CanEdit("Git")
  /\ state.committerName # committerName
  /\ state' = [state EXCEPT
                 !.committerName = committerName,
                 !.disallowedCharactersMessage =
                     DisallowedCharactersMessageFor(committerName)]
  /\ edits' = edits + 1
  /\ UNCHANGED NotState

onMergeToolChanged(mergeTool) ==
  /\ CanEdit("Git")
  /\ SetState("mergeToolName", mergeTool)

onUseCustomMergeToolChanged(use) ==
  /\ CanEdit("Git")
  /\ SetState("useCustomMergeTool", use)

onMergeToolCommandChanged(command) ==
  /\ CanEdit("Git")
  /\ SetState("mergeToolCommand", command)

onCommitterEmailChanged(committerEmail) ==
  /\ CanEdit("Git")
  /\ SetState("committerEmail", committerEmail)

\* as onDefaultBranchChanged, storing the branch as it is typed
onDefaultBranchChanged_WritesThrough(defaultBranch) ==
  /\ CanEdit("Git")
  /\ state.defaultBranch # defaultBranch
  /\ state' = [state EXCEPT !.defaultBranch = defaultBranch]
  /\ branchStore' = defaultBranch
  /\ edits' = edits + 1
  /\ UNCHANGED <<config, app, props, loadPc, loadVars, pc,
                 shouldRefreshAuthor, calls, result, open, saves, earlyInput>>

onDefaultBranchChanged(defaultBranch) ==
  /\ CanEdit("Git")
  /\ SetState("defaultBranch", defaultBranch)

onSelectedEditorChanged(editor) ==
  /\ CanEdit("Integrations")
  /\ editor \in state.availableEditors
  /\ SetState("selectedExternalEditor", editor)

onSelectedShellChanged(shell) ==
  /\ CanEdit("Integrations")
  /\ shell \in state.availableShells
  /\ SetState("selectedShell", shell)

onSelectedThemeChanged(theme) ==
  /\ CanEdit("Appearance")
  /\ app.selectedTheme # theme
  /\ app' = [app EXCEPT !.selectedTheme = theme]
  /\ edits' = edits + 1
  /\ UNCHANGED <<config, branchStore, props, state, loadPc, loadVars, pc,
                 shouldRefreshAuthor, calls, result, open, saves, earlyInput>>

onLogout(account) ==
  /\ CanEdit("Accounts")
  /\ account \in {props.dotComAccount, props.enterpriseAccount} \ {Null}
  /\ account \in app.accounts
  /\ app' = [app EXCEPT !.accounts = @ \ {account}]
  /\ edits' = edits + 1
  /\ UNCHANGED <<config, branchStore, props, state, loadPc, loadVars, pc,
                 shouldRefreshAuthor, calls, result, open, saves, earlyInput>>

\* onDotComSignIn / onEnterpriseSignIn: dismiss, then show the sign-in dialog
onSignIn ==
  /\ open
  /\ state.selectedIndex = "Accounts"
  /\ open' = FALSE
  /\ UNCHANGED <<config, branchStore, app, props, state, loadPc, loadVars, pc,
                 shouldRefreshAuthor, calls, result, edits, saves, earlyInput>>

\* the Dialog's own dismissal (Cancel, Escape): props.onDismissed
onDismissed ==
  /\ open
  /\ open' = FALSE
  /\ UNCHANGED <<config, branchStore, app, props, state, loadPc, loadVars, pc,
                 shouldRefreshAuthor, calls, result, edits, saves, earlyInput>>

onTabClicked(index) ==
  /\ CanHandle
  /\ SetState("selectedIndex", index)

\* renderFooter: the tabs that show the Save button, and whether it is enabled
FooterShown == state.selectedIndex \in {"Integrations", "Advanced", "Prompts", "Git"}
okButtonDisabled == state.disallowedCharactersMessage # Null

\* ------------------------------------------------------------------ onSave

\* as Order, with the default branch written before the committer email
Order_BranchBeforeEmail ==
  << "name", "branch", "email", "tool", "cmd", "rm1", "rm2",
     "stats", "repoRemoval", "forcePush", "editor", "shell",
     "discard", "strategy" >>

\* the awaits of onSave, in program order
Order == << "name", "email", "branch", "tool", "cmd", "rm1", "rm2",
            "stats", "repoRemoval", "forcePush", "editor", "shell",
            "discard", "strategy" >>

\* position of an await in the program; "idle" is before the first
Ord(p) == IF p = "idle" THEN 0 ELSE CHOOSE i \in 1..Len(Order) : Order[i] = p

\* the awaits inside the try block
InTry(p) == Ord(p) >= 1 /\ Ord(p) <= Ord("rm2")

\* as NameChanged, but an absent stored name counts as the empty string
NameChanged_NullAsEmpty ==
  state.committerName #
    (IF state.initialCommitterName = Null THEN "" ELSE state.initialCommitterName)

NameChanged == state.committerName # state.initialCommitterName

EmailChanged == state.committerEmail # state.initialCommitterEmail

\* as DefaultBranchChanged, without the test for an empty draft
DefaultBranchChanged_NoEmptyTest ==
  state.defaultBranch # state.initialDefaultBranch

DefaultBranchChanged ==
  /\ state.defaultBranch # ""
  /\ state.defaultBranch # state.initialDefaultBranch

IndicatorsChanged ==
  props.repositoryIndicatorsEnabled # state.repositoryIndicatorsEnabled

MergeSettingsChanged ==
  \/ state.useCustomMergeTool # state.initialUseCustomMergeTool
  \/ state.mergeToolName # state.initialMergeToolName
  \/ state.mergeToolCommand # state.initialMergeToolCommand

MergeToolChanged ==
  /\ state.mergeToolName # state.initialMergeToolName
  /\ state.mergeToolName # ""

MergeToolCommandChanged ==
  /\ state.mergeToolCommand # state.initialMergeToolCommand
  /\ state.mergeToolCommand # ""

\* the merge settings block is entered: either save resumes inside it, or it
\* reaches the block's condition now
InMergeBlock(from) ==
  IF Ord(from) >= Ord("tool") THEN TRUE ELSE MergeSettingsChanged

\* as Issues, with the external editor set whether or not one is selected
Issues_EditorAlways(k, from) ==
  CASE k = "name" -> NameChanged
    [] k = "email" -> EmailChanged
    [] k = "branch" -> DefaultBranchChanged
    [] k = "tool" -> InMergeBlock(from) /\ MergeToolChanged
    [] k = "cmd" -> InMergeBlock(from) /\ MergeToolCommandChanged
    [] k = "rm1" -> InMergeBlock(from) /\ state.useCustomMergeTool = FALSE
    [] k = "rm2" -> from = "rm1"
    [] OTHER -> TRUE

\* save, resuming after the await `from`, reaches the await k and issues it
Issues(k, from) ==
  CASE k = "name" -> NameChanged
    [] k = "email" -> EmailChanged
    [] k = "branch" -> DefaultBranchChanged
    [] k = "tool" -> InMergeBlock(from) /\ MergeToolChanged
    [] k = "cmd" -> InMergeBlock(from) /\ MergeToolCommandChanged
    [] k = "rm1" -> InMergeBlock(from) /\ state.useCustomMergeTool = FALSE
    [] k = "rm2" -> from = "rm1"
    [] k = "editor" -> ~Falsy(state.selectedExternalEditor)
    [] OTHER -> TRUE

\* the await at which save suspends next, or "done" when it runs to its end
Target(from) ==
  LET next == { i \in 1..Len(Order) : i > Ord(from) /\ Issues(Order[i], from) }
  IN IF next = {} THEN "done"
     ELSE Order[CHOOSE i \in next : \A j \in next : i <= j]

MergeToolCommandKey == "mergetool." \o state.mergeToolName \o ".cmd"

RemovedCommandKey == "mergetool" \o ToStr(state.initialMergeToolName) \o ".cmd"

Call(op, key, val) == [op |-> op, key |-> key, val |-> val]

\* the call awaited at k, with its arguments as save evaluates them now
CallOf(k) ==
  CASE k = "name" -> Call("setGlobalConfigValue", "user.name", state.committerName)
    [] k = "email" -> Call("setGlobalConfigValue", "user.email", state.committerEmail)
    [] k = "branch" -> Call("setDefaultBranch", "", state.defaultBranch)
    [] k = "tool" -> Call("setGlobalConfigValue", "merge.tool", state.mergeToolName)
    [] k = "cmd" -> Call("setGlobalConfigValue", MergeToolCommandKey,
                         state.mergeToolCommand)
    [] k = "rm1" -> Call("removeGlobalConfigValue", "merge.tool", Null)
    [] k = "rm2" -> Call("removeGlobalConfigValue", RemovedCommandKey, Null)
    [] k = "stats" -> Call("setStatsOptOut", "", state.optOutOfUsageTracking)
    [] k = "repoRemoval" -> Call("setConfirmRepoRemovalSetting", "",
                                 state.confirmRepositoryRemoval)
    [] k = "forcePush" -> Call("setConfirmForcePushSetting", "",
                               state.confirmForcePush)
    [] k = "editor" -> Call("setExternalEditor", "", state.selectedExternalEditor)
    [] k = "shell" -> Call("setShell", "", state.selectedShell)
    [] k = "discard" -> Call("setConfirmDiscardChangesSetting", "",
                             state.confirmDiscardChanges)
    [] k = "strategy" -> Call("setUncommittedChangesStrategySetting", "",
                              state.uncommittedChangesStrategy)

\* the dispatcher calls save makes without awaiting them, on its way from the
\* await `from` to the await (or end) `to`
RefreshesAuthor(from, to, refresh) ==
  /\ Ord(from) < Ord("branch")
  /\ to = "done" \/ Ord(to) >= Ord("branch")
  /\ props.repository # Null /\ refresh

SetsIndicators(from, to) ==
  /\ Ord(from) < Ord("tool")
  /\ to = "done" \/ Ord(to) >= Ord("tool")
  /\ IndicatorsChanged

SyncCalls(from, to, refresh) ==
  (IF RefreshesAuthor(from, to, refresh)
   THEN << Call("refreshAuthor", "", props.repository) >> ELSE << >>)
  \o (IF SetsIndicators(from, to)
      THEN << Call("setRepositoryIndicatorsEnabled", "",
                   state.repositoryIndicatorsEnabled) >> ELSE << >>)

\* what a completed call leaves in the collaborators
ConfigAfter(c) ==
  CASE c.op = "setGlobalConfigValue" -> setGlobalConfigValue(config, c.key, c.val)
    [] c.op = "removeGlobalConfigValue" -> removeGlobalConfigValue(config, c.key)
    [] OTHER -> config

BranchAfter(c) == IF c.op = "setDefaultBranch" THEN c.val ELSE branchStore

AppAfter(a, c) ==
  CASE c.op = "setStatsOptOut" -> [a EXCEPT !.statsOptOut = c.val]
    [] c.op = "setConfirmRepoRemovalSetting" -> [a EXCEPT !.confirmRepoRemoval = c.val]
    [] c.op = "setConfirmForcePushSetting" -> [a EXCEPT !.confirmForcePush = c.val]
    [] c.op = "setExternalEditor" -> [a EXCEPT !.externalEditor = c.val]
    [] c.op = "setShell" -> [a EXCEPT !.shell = c.val]
    [] c.op = "setConfirmDiscardChangesSetting" ->
         [a EXCEPT !.confirmDiscardChanges = c.val]
    [] c.op = "setUncommittedChangesStrategySetting" ->
         [a EXCEPT !.uncommittedChangesStrategy = c.val]
    [] c.op = "setRepositoryIndicatorsEnabled" ->
         [a EXCEPT !.repositoryIndicatorsEnabled = c.val]
    [] c.op = "postError" -> [a EXCEPT !.errors = @ + 1]
    [] OTHER -> a

\* save runs on from the await `from` until it suspends again or ends
RunFrom(from, refresh, cfg, branch, a) ==
  LET to == Target(from)
      sync == SyncCalls(from, to, refresh)
      a1 == IF SetsIndicators(from, to)
            THEN AppAfter(a, Call("setRepositoryIndicatorsEnabled", "",
                                  state.repositoryIndicatorsEnabled))
            ELSE a
  IN /\ config' = cfg
     /\ branchStore' = branch
     /\ app' = a1
     /\ shouldRefreshAuthor' = refresh
     /\ UNCHANGED state
     /\ IF to = "done"
        THEN /\ calls' = calls \o sync \o << Call("onDismissed", "", Null) >>
             /\ pc' = "idle"
             /\ result' = "saved"
             /\ open' = FALSE
        ELSE /\ calls' = calls \o sync \o << CallOf(to) >>
             /\ pc' = to
             /\ UNCHANGED <<result, open>>

\* the Save button is pressed: save runs to its first await
onSave ==
  /\ open /\ pc = "idle" /\ saves < MaxSaves
  /\ FooterShown /\ ~okButtonDisabled
  /\ saves' = saves + 1
  /\ calls' = SyncCalls("idle", Target("idle"), FALSE) \o << CallOf(Target("idle")) >>
  /\ pc' = Target("idle")
  /\ shouldRefreshAuthor' = FALSE
  /\ result' = "running"
  /\ app' = IF SetsIndicators("idle", Target("idle"))
            THEN AppAfter(app, Call("setRepositoryIndicatorsEnabled", "",
                                    state.repositoryIndicatorsEnabled))
            ELSE app
  /\ UNCHANGED <<config, branchStore, props, state, loadPc, loadVars, open, edits,
                 earlyInput>>

\* the awaited call completes and save runs on
onSaveResumed ==
  /\ pc # "idle"
  /\ RunFrom(pc, shouldRefreshAuthor \/ pc \in {"name", "email"},
             ConfigAfter(calls[Len(calls)]), BranchAfter(calls[Len(calls)]),
             AppAfter(app, calls[Len(calls)]))
  /\ UNCHANGED <<props, loadPc, loadVars, edits, saves, earlyInput>>

\* as LockFileState, leaving the selected tab as it is
LockFileState_KeepsTab == [state EXCEPT !.existingLockFilePath = LockPath]

\* the state the catch block sets when the error names a lock file
LockFileState ==
  [state EXCEPT !.existingLockFilePath = LockPath, !.selectedIndex = "Git"]

\* the awaited call inside the try block fails: the catch block
onSaveCaught(e) ==
  /\ pc # "idle" /\ InTry(pc)
  /\ pc' = "idle"
  /\ IF e = "lock"
     THEN /\ state' = LockFileState
          /\ result' = "lock"
          /\ UNCHANGED <<calls, app, open>>
     ELSE /\ calls' = calls \o << Call("onDismissed", "", Null),
                                  Call("postError", "", e) >>
          /\ app' = AppAfter(app, Call("postError", "", e))
          /\ open' = FALSE
          /\ result' = "failed"
          /\ UNCHANGED state
  /\ UNCHANGED <<config, branchStore, props, loadPc, loadVars,
                 shouldRefreshAuthor, edits, saves, earlyInput>>

\* an awaited dispatcher call after the try block fails: nothing catches it
onSaveRejected(e) ==
  /\ pc # "idle" /\ ~InTry(pc)
  /\ pc' = "idle"
  /\ result' = "rejected"
  /\ UNCHANGED <<config, branchStore, app, props, state, loadPc, loadVars,
                 shouldRefreshAuthor, calls, open, edits, saves, earlyInput>>

\* ------------------------------------------------------------ specification

Edit ==
  \/ \E b \in BOOLEAN :
       \/ onRepositoryIndicatorsEnabledChanged(b)
       \/ onOptOutofReportingChanged(b)
       \/ onConfirmRepositoryRemovalChanged(b)
       \/ onConfirmDiscardChangesChanged(b)
       \/ onConfirmForcePushChanged(b)
       \/ onUseCustomMergeToolChanged(b)
  \/ \E s \in Strategies : onUncommittedChangesStrategyChanged(s)
  \/ \E n \in Names : onCommitterNameChanged(n)
  \/ \E m \in Emails : onCommitterEmailChanged(m)
  \/ \E b \in Branches : onDefaultBranchChanged(b)
  \/ \E t \in ToolNames : onMergeToolChanged(t)
  \/ \E c \in ToolCommands : onMergeToolCommandChanged(c)
  \/ \E e \in Editors : onSelectedEditorChanged(e)
  \/ \E s \in Shells : onSelectedShellChanged(s)

Next ==
  \/ componentWillMount
  \/ Edit
  \/ onLockFileDeleted
  \/ onLockFileDeleteError
  \/ \E t \in Themes : onSelectedThemeChanged(t)
  \/ \E a \in {DotCom, Enterprise} : onLogout(a)
  \/ onSignIn
  \/ onDismissed
  \/ \E i \in Tabs : onTabClicked(i)
  \/ onSave
  \/ onSaveResumed
  \/ \E e \in Outcomes \ {"ok"} : onSaveCaught(e)
  \/ \E e \in Outcomes \ {"ok"} : onSaveRejected(e)

Spec == Init /\ [][Next]_vars

SpecEarly == InitEarly /\ [][Next]_vars

\* ------------------------------------------------------------------ claims

\* the calls of the current save that write a setting
ConfigOps == {"setGlobalConfigValue", "removeGlobalConfigValue", "setDefaultBranch"}
AppOps == {"setStatsOptOut", "setConfirmRepoRemovalSetting",
           "setConfirmForcePushSetting", "setExternalEditor", "setShell",
           "setConfirmDiscardChangesSetting",
           "setUncommittedChangesStrategySetting"}
WriteOps == ConfigOps \cup AppOps \cup {"setRepositoryIndicatorsEnabled"}

Count(cs, op) == Cardinality({ i \in 1..Len(cs) : cs[i].op = op })

\* this step starts a save
Starts == pc = "idle" /\ pc' # "idle"
\* this step is a failure of the awaited call
Fails == pc # "idle" /\ pc' = "idle" /\ result' # "saved"
\* this step runs save past the point where it decides on the await k
Passes(k) ==
  /\ pc # pc' /\ ~Fails
  /\ Ord(pc) < Ord(k)
  /\ pc' = "idle" \/ Ord(pc') >= Ord(k)
\* this step issues the call c and suspends save on it
Awaits(k, c) == pc' = k /\ calls'[Len(calls')] = c

\* C1 as stated: a save issues the write of a field of the draft if and only
\* if the field's value differs from the initial value captured at load time.
C1_AsStated ==
  [][ loadPc = "done" =>
        /\ Passes("name") =>
             (pc' = "name" <=> state.committerName # state.initialCommitterName)
        /\ Passes("email") =>
             (pc' = "email" <=> state.committerEmail # state.initialCommitterEmail)
        /\ Passes("branch") =>
             (pc' = "branch" <=> state.defaultBranch # state.initialDefaultBranch)
        /\ Passes("tool") =>
             (pc' = "tool" <=> state.mergeToolName # state.initialMergeToolName)
        /\ Passes("cmd") =>
             (pc' = "cmd" <=> state.mergeToolCommand # state.initialMergeToolCommand)
        /\ Passes("rm1") =>
             (pc' = "rm1"
                <=> state.useCustomMergeTool # state.initialUseCustomMergeTool)
        /\ Passes("stats") =>
             (pc' = "stats"
                <=> state.optOutOfUsageTracking # props.optOutOfUsageTracking)
        /\ Passes("repoRemoval") =>
             (pc' = "repoRemoval"
                <=> state.confirmRepositoryRemoval # props.confirmRepositoryRemoval)
        /\ Passes("forcePush") =>
             (pc' = "forcePush" <=> state.confirmForcePush # props.confirmForcePush)
        /\ Passes("editor") =>
             (pc' = "editor"
                <=> state.selectedExternalEditor # props.selectedExternalEditor)
        /\ Passes("shell") =>
             (pc' = "shell" <=> state.selectedShell # props.selectedShell)
        /\ Passes("discard") =>
             (pc' = "discard"
                <=> state.confirmDiscardChanges # props.confirmDiscardChanges)
        /\ Passes("strategy") =>
             (pc' = "strategy"
                <=> state.uncommittedChangesStrategy
                      # props.uncommittedChangesStrategy)
    ]_vars

\* C1 as amended: a save writes user.name (user.email) if and only if the
\* draft differs from the captured initial value when save examines it, null
\* differing from the empty string; the default branch if and only if the draft
\* is non-empty and differs; the repository-indicator setting if and only if
\* the draft differs from the prop; merge.tool and the merge tool command if
\* and only if the draft is non-empty and differs; the merge tool removals if
\* and only if the custom-merge-tool flag is off and a merge setting differs;
\* and the app-level settings on every save that reaches them, the external
\* editor whenever one is selected.
C1_WritesOnChange ==
  [][ /\ Passes("name") =>
           (Awaits("name", Call("setGlobalConfigValue", "user.name",
                                state.committerName))
              <=> state.committerName # state.initialCommitterName)
      /\ Passes("email") =>
           (Awaits("email", Call("setGlobalConfigValue", "user.email",
                                 state.committerEmail))
              <=> state.committerEmail # state.initialCommitterEmail)
      /\ Passes("branch") =>
           (Awaits("branch", Call("setDefaultBranch", "", state.defaultBranch))
              <=> /\ state.defaultBranch # ""
                  /\ state.defaultBranch # state.initialDefaultBranch)
      /\ Passes("tool") =>
           /\ Count(calls', "setRepositoryIndicatorsEnabled") = 1
                <=> state.repositoryIndicatorsEnabled
                      # props.repositoryIndicatorsEnabled
           /\ Awaits("tool", Call("setGlobalConfigValue", "merge.tool",
                                  state.mergeToolName))
                <=> /\ state.mergeToolName # ""
                    /\ state.mergeToolName # state.initialMergeToolName
      /\ Passes("cmd") =>
           (pc' = "cmd"
              <=> /\ state.mergeToolCommand # ""
                  /\ state.mergeToolCommand # state.initialMergeToolCommand)
      /\ Passes("rm1") =>
           (Awaits("rm1", Call("removeGlobalConfigValue", "merge.tool", Null))
              <=> /\ state.useCustomMergeTool = FALSE
                  /\ \/ pc \in {"tool", "cmd"}
                     \/ state.useCustomMergeTool # state.initialUseCustomMergeTool
                     \/ state.mergeToolName # state.initialMergeToolName
                     \/ state.mergeToolCommand # state.initialMergeToolCommand)
      /\ Passes("stats") =>
           Awaits("stats", Call("setStatsOptOut", "", state.optOutOfUsageTracking))
      /\ Passes("repoRemoval") =>
           Awaits("repoRemoval", Call("setConfirmRepoRemovalSetting", "",
                                      state.confirmRepositoryRemoval))
      /\ Passes("forcePush") =>
           Awaits("forcePush", Call("setConfirmForcePushSetting", "",
                                    state.confirmForcePush))
      /\ Passes("editor") =>
           (Awaits("editor", Call("setExternalEditor", "",
                                  state.selectedExternalEditor))
              <=> ~Falsy(state.selectedExternalEditor))
      /\ Passes("shell") =>
           Awaits("shell", Call("setShell", "", state.selectedShell))
      /\ Passes("discard") =>
           Awaits("discard", Call("setConfirmDiscardChangesSetting", "",
                                  state.confirmDiscardChanges))
      /\ Passes("strategy") =>
           Awaits("strategy", Call("setUncommittedChangesStrategySetting", "",
                                   state.uncommittedChangesStrategy))
    ]_vars

\* a completed save, after the load, that wrote a changed committer name and
\* skipped the unchanged committer email
C1_Witness ==
  /\ result = "saved"
  /\ state.initialCommitterName \notin {Null, state.committerName}
  /\ state.committerEmail = state.initialCommitterEmail
  /\ \E i \in 1..Len(calls) :
       calls[i] = Call("setGlobalConfigValue", "user.name", state.committerName)
  /\ \A i \in 1..Len(calls) : calls[i].key # "user.email"

\* C2: setDefaultBranch is never called with an empty string and the stored
\* default branch is never empty; a save that finds the default-branch draft
\* empty issues no default-branch write, keeps the stored value and goes on to
\* its next write.
C2_EmptyBranchNeverWritten ==
  [][ /\ \A i \in 1..Len(calls') :
           calls'[i].op = "setDefaultBranch" => calls'[i].val # ""
      /\ branchStore' # ""
      /\ Passes("branch") /\ state.defaultBranch = "" =>
           /\ pc' # "branch"
           /\ branchStore' = branchStore
           /\ pc' \in {"tool", "cmd", "rm1", "stats"}
    ]_vars

\* a save that ran to completion after the user had emptied the loaded default
\* branch: nothing was written for it and the stored value is the loaded one
C2_Witness ==
  /\ result = "saved"
  /\ state.defaultBranch = ""
  /\ state.initialDefaultBranch = "main"
  /\ branchStore = "main"
  /\ Count(calls, "setDefaultBranch") = 0
  /\ Count(calls, "setStatsOptOut") = 1

\* C3: when a configuration write of save fails with a lock-conflict error
\* that names a lock file, the dialog stays open, nothing is posted to the
\* dispatcher, the Git tab is selected, the lock file path is recorded, and
\* every other field of the state (drafts and initial values) is unchanged.
C3_LockKeepsDialog ==
  [][ Fails /\ InTry(pc) /\ result' = "lock" =>
        /\ open' = open
        /\ calls' = calls
        /\ app' = app
        /\ state'.selectedIndex = "Git"
        /\ state'.existingLockFilePath = LockPath
        /\ \A f \in DOMAIN state \ {"selectedIndex", "existingLockFilePath"} :
             state'[f] = state[f]
    ]_vars

\* a save made from the Advanced tab with an edited draft has hit the lock:
\* the dialog is open on the Git tab with the lock file path and the draft
C3_Witness ==
  /\ result = "lock" /\ pc = "idle" /\ open
  /\ state.selectedIndex = "Git"
  /\ state.existingLockFilePath = LockPath
  /\ state.optOutOfUsageTracking # props.optOutOfUsageTracking
  /\ Count(calls, "onDismissed") = 0 /\ app.errors = 0

\* C4 as stated: whenever an operation of save fails with anything but a
\* lock-conflict error naming a lock file, the dialog is closed exactly once
\* and exactly one error is posted.
C4_AsStated ==
  [][ Fails /\ result' # "lock" =>
        /\ Count(calls', "onDismissed") = 1
        /\ Count(calls', "postError") = 1
        /\ app'.errors = app.errors + 1
        /\ ~open'
    ]_vars

\* position of a call in the order the claim gives for the writes of a save
\* (refreshAuthor, onDismissed and postError are calls but not writes)
Rank(c) ==
  CASE c.op = "setGlobalConfigValue" /\ c.key = "user.name" -> 1
    [] c.op = "setGlobalConfigValue" /\ c.key = "user.email" -> 2
    [] c.op = "refreshAuthor" -> 3
    [] c.op = "setDefaultBranch" -> 4
    [] c.op = "setRepositoryIndicatorsEnabled" -> 5
    [] c.op = "setGlobalConfigValue" /\ c.key = "merge.tool" -> 6
    [] c.op = "setGlobalConfigValue" -> 7
    [] c.op = "removeGlobalConfigValue" /\ c.key = "merge.tool" -> 8
    [] c.op = "removeGlobalConfigValue" -> 9
    [] c.op = "setStatsOptOut" -> 10
    [] c.op = "setConfirmRepoRemovalSetting" -> 11
    [] c.op = "setConfirmForcePushSetting" -> 12
    [] c.op = "setExternalEditor" -> 13
    [] c.op = "setShell" -> 14
    [] c.op = "setConfirmDiscardChangesSetting" -> 15
    [] c.op = "setUncommittedChangesStrategySetting" -> 16
    [] c.op = "onDismissed" -> 17
    [] c.op = "postError" -> 18

\* C5: the writes of one save are issued in the fixed order user.name,
\* user.email, default branch, repository-indicator setting, merge.tool, merge
\* tool command, merge tool removals, app-level settings; and once a write has
\* failed the save issues no further write.
C5_OrderedAndAbortsOnFailure ==
  [][ /\ calls' # calls =>
           \A i \in 1..(Len(calls') - 1) : Rank(calls'[i]) < Rank(calls'[i + 1])
      /\ Fails =>
           /\ Len(calls') >= Len(calls)
           /\ \A i \in 1..Len(calls') :
                IF i <= Len(calls) THEN calls'[i] = calls[i]
                ELSE calls'[i].op \notin WriteOps
      /\ pc = "idle" /\ pc' = "idle" => calls' = calls
    ]_vars

\* a save made after the load that wrote user.name, went on to later writes
\* and failed on a merge tool removal: no write was issued after that one
C5_Witness ==
  /\ result \in {"lock", "failed"} /\ pc = "idle"
  /\ state.initialDefaultBranch # Null
  /\ Len(calls) >= 3
  /\ calls[1].key = "user.name"
  /\ \E i \in 2..Len(calls) :
       /\ calls[i].op = "removeGlobalConfigValue"
       /\ \A j \in (i + 1)..Len(calls) : calls[j].op \notin WriteOps
  /\ Count(calls, "setStatsOptOut") = 0

\* C6 as stated: as long as no save has been started, no field change, theme
\* selection or tab click changes what is persisted behind the collaborators
\* (configuration store, default-branch helper, dispatcher).
C6_AsStated ==
  [][ saves' = 0 /\ app'.accounts = app.accounts
        => UNCHANGED <<config, branchStore, app>> ]_vars

\* C6 as amended: as long as no save has been started, no event changes the
\* configuration store, the stored default branch or any app-level setting
\* other than the selected theme and the signed-in accounts: selecting a theme
\* calls dispatcher.setSelectedTheme at once and signing out calls
\* dispatcher.removeAccount at once, every other edit is buffered in the draft.
C6_EditsBuffered ==
  [][ saves' = 0 =>
        /\ UNCHANGED <<config, branchStore>>
        /\ \A f \in DOMAIN app \ {"selectedTheme", "accounts"} : app'[f] = app[f]
    ]_vars

\* the dialog was dismissed without a save after the loaded default branch had
\* been edited: the stored default branch is still the loaded one
C6_Witness ==
  /\ saves = 0 /\ ~open
  /\ state.initialDefaultBranch = "main"
  /\ state.defaultBranch = "dev"
  /\ branchStore = "main"

\* no draft has been edited since the load completed
Unedited ==
  /\ loadPc = "done"
  /\ state = [LoadSetState EXCEPT
                !.selectedIndex = state.selectedIndex,
                !.existingLockFilePath = state.existingLockFilePath]

\* C7 as stated: a save started after the load with no edit in between
\* suspends on no configuration-store write, it goes straight to the app-level
\* settings.
C7_AsStated ==
  [][ Starts /\ Unedited => ~InTry(pc') ]_vars

\* C8: the external editor setter is never called without an editor; while a
\* save is suspended the dialog has not been dismissed by it; and when a save
\* has ended with no failure it has dismissed the dialog once, as its last
\* call, after each of the six unconditional app-level setters was called once
\* and completed.
C8_DismissedOnceAtEnd ==
  /\ \A i \in 1..Len(calls) :
       calls[i].op = "setExternalEditor" => ~Falsy(calls[i].val)
  /\ pc # "idle" => Count(calls, "onDismissed") = 0
  /\ result = "saved" =>
       /\ pc = "idle" /\ ~open
       /\ Count(calls, "onDismissed") = 1
       /\ calls[Len(calls)].op = "onDismissed"
       /\ Count(calls, "postError") = 0
       /\ \A op \in AppOps \ {"setExternalEditor"} : Count(calls, op) = 1
       /\ \A i \in 1..Len(calls) :
            /\ calls[i].op = "setStatsOptOut" => app.statsOptOut = calls[i].val
            /\ calls[i].op = "setConfirmRepoRemovalSetting"
                 => app.confirmRepoRemoval = calls[i].val
            /\ calls[i].op = "setConfirmForcePushSetting"
                 => app.confirmForcePush = calls[i].val
            /\ calls[i].op = "setExternalEditor" => app.externalEditor = calls[i].val
            /\ calls[i].op = "setShell" => app.shell = calls[i].val
            /\ calls[i].op = "setConfirmDiscardChangesSetting"
                 => app.confirmDiscardChanges = calls[i].val
            /\ calls[i].op = "setUncommittedChangesStrategySetting"
                 => app.uncommittedChangesStrategy = calls[i].val
            /\ calls[i].op = "setDefaultBranch" => branchStore = calls[i].val
            /\ calls[i].op = "setGlobalConfigValue"
                 => \/ getGlobalConfigValue(calls[i].key) = calls[i].val
                    \/ \E j \in (i + 1)..Len(calls) : calls[j].key = calls[i].key

\* a save made after the load that wrote a configuration value and ended with
\* no failure, with no external editor selected: the editor setter was not called
C8_Witness ==
  /\ result = "saved"
  /\ state.initialDefaultBranch # Null
  /\ state.selectedExternalEditor = Null
  /\ Count(calls, "setGlobalConfigValue") >= 1
  /\ Count(calls, "setExternalEditor") = 0
  /\ Count(calls, "onDismissed") = 1

\* C9 as stated: the command key a save removes is the one read at load
\* time, 'mergetool.<initial name>.cmd'; and no save writes or removes a
\* command key built from an empty or absent tool name.
C9_AsStated ==
  [][ loadPc = "done" /\ pc # pc' =>
        /\ pc' = "rm2" =>
             /\ ~Falsy(state.initialMergeToolName)
             /\ calls'[Len(calls')].key
                  = "mergetool." \o ToStr(state.initialMergeToolName) \o ".cmd"
        /\ pc' = "cmd" =>
             /\ state.mergeToolName # ""
             /\ calls'[Len(calls')].key
                  = "mergetool." \o state.mergeToolName \o ".cmd"
    ]_vars

\* C10 as stated: the disallowed-characters error is set exactly when the
\* committer name draft is invalid, so Save is enabled only on a valid name.
C10_AsStated ==
  /\ state.disallowedCharactersMessage # Null
       <=> ~gitAuthorNameIsValid(state.committerName)
  /\ ~okButtonDisabled => gitAuthorNameIsValid(state.committerName)

\* nothing has been entered: but for the selected tab, the component state is
\* still the one the constructor set
NothingEntered ==
  state = [ConstructorState(props) EXCEPT !.selectedIndex = state.selectedIndex]

\* C11 as stated: while the load on open has not completed and the user has
\* entered nothing, no step of a save replaces or removes a value stored in
\* the global git configuration, and none changes the stored default branch.
C11_AsStated ==
  [][ pc # "idle" /\ pc' # pc /\ loadPc # "done" /\ NothingEntered =>
        /\ \A k \in DOMAIN config :
             k \in DOMAIN config' /\ config'[k] = config[k]
        /\ branchStore' = branchStore
    ]_vars

====
